---- MODULE Spec2Model ----
(***************************************************************************)
(* Model of AIGenerator (backend/ai_generator.py): one call of             *)
(* generate_response, its sequential tool-calling loop, the execution of   *)
(* the tool calls of a response and the forced synthesis call.             *)
(*                                                                         *)
(* The Anthropic client (client.messages.create) and the tool manager      *)
(* (tool_manager.execute_tool) are the two collaborators.  Every call to   *)
(* either is recorded in a log (create_calls, execute_calls), the way the  *)
(* repository's tests read call_args_list of their mocks.                  *)
(*                                                                         *)
(* Around it: the Content Search tool (CourseSearchTool.execute) with the  *)
(* source list it leaves behind, and RAGSystem.query, which reads and      *)
(* resets that list after the run.  Four specifications share the          *)
(* variables: Spec and FairSpec (one call of generate_response),           *)
(* SearchSpec (calls of the search tool), QuerySpec (queries one after     *)
(* the other) and ConcurrentSpec (two queries at the same time).           *)
(***************************************************************************)
EXTENDS Integers, Sequences, FiniteSets, TLC

(***************************************************************************)
(* Bounds of the model.                                                    *)
(***************************************************************************)
\* Largest number of content blocks in one model response.
MaxBlocks == 2

\* Largest number of matches the Retrieval Backend returns for one search.
MaxMatches == 2

\* Number of queries one RAGSystem serves one after the other.
MaxQueries == 2

\* Number of register calls made on one tool manager.
MaxRegistrations == 4

(***************************************************************************)
(* Program constants.                                                      *)
(***************************************************************************)
\* self.MAX_TOOL_ROUNDS = 2
MAX_TOOL_ROUNDS == 2

\* The fixed string returned when a response has no content (line 151).
FALLBACK == <<"I apologize, but I encountered an error while processing your request.">>

\* self.base_params
base_params == [model |-> "model", temperature |-> 0, max_tokens |-> 800]

\* The names under which RAGSystem registers its two tools.
RegisteredTools == {"search_course_content", "get_course_outline"}

\* Tool names a model response may carry: a registered one and one that no
\* tool is registered under.
ToolNames == {"search_course_content", "unknown_tool"}

\* What a registered tool's handler does when it is invoked: it returns the
\* text of what it found, it returns the backend's error string, or it
\* raises.
HandlerBehaviours == {"returns_text", "backend_error", "raises"}

\* The behaviours drawn in a call of generate_response.  To _execute_tools a
\* handler that raises and an unknown tool are the same outcome, None, and
\* the calls of "unknown_tool" produce it.
RunBehaviours == HandlerBehaviours \ {"raises"}

\* Python's None, as the value of a tool result and of an absent answer.
None == <<>>

(***************************************************************************)
(* The Content Search tool (CourseSearchTool) and its Retrieval Backend.   *)
(* A string is a sequence of pieces, so that two strings are equal exactly *)
(* when they are built from the same pieces in the same order.             *)
(***************************************************************************)
\* An optional argument or metadata entry: absent, or present with a value.
Given(v) == [given |-> TRUE, value |-> v]
NoCourse == [given |-> FALSE, value |-> ""]
NoLesson == [given |-> FALSE, value |-> 0]

\* The course names and lesson numbers a search is filtered by, and the
\* courses the backend has indexed.
CourseNames == {"Course A", "Course B"}
LessonNumbers == {0, 2}
IndexedCourses == {"Course A"}
CourseFilters == {NoCourse} \cup {Given(c) : c \in CourseNames}
LessonFilters == {NoLesson} \cup {Given(n) : n \in LessonNumbers}

\* The decimal digits of a natural number, as f"{n}" writes them.
Digits == <<"0", "1", "2", "3", "4", "5", "6", "7", "8", "9">>

RECURSIVE Str(_)
Str(n) ==
    IF n < 10 THEN <<Digits[n + 1]>>
    ELSE Str(n \div 10) \o <<Digits[(n % 10) + 1]>>

\* What the backend's search returns: an error string, or the matches in
\* relevance order, each a text with the metadata of its chunk.
Metadatas ==
    [course_title : {NoCourse} \cup {Given(c) : c \in IndexedCourses},
     lesson_number : LessonFilters]
Matches == [text : {"Lesson content"}, metadata : Metadatas]
SearchError == <<"Search error: ", "backend unavailable">>

RECURSIVE MatchesOfLen(_)
MatchesOfLen(len) ==
    IF len = 0 THEN {<<>>}
    ELSE {Append(ms, m) : ms \in MatchesOfLen(len - 1), m \in Matches}

SearchResults ==
    {[error |-> SearchError, matches |-> <<>>]} \cup
    {[error |-> None, matches |-> ms] :
        ms \in UNION {MatchesOfLen(len) : len \in 0..MaxMatches}}

\* The backend's lesson links: the catalog has a link for lesson 0 of
\* Course A and none for lesson 2 or for a course it does not know.
GetLessonLink(course_title, lesson_number) ==
    IF course_title \in IndexedCourses /\ lesson_number = 0
    THEN <<"https://example.com/lesson/", course_title, "/">> \o Str(lesson_number)
    ELSE None

\* The message for zero matches, with a lesson filter of 0 taken as absent.
NoResultsMessageTruthy(course_name, lesson_number) ==
    <<"No relevant content found">>
    \o (IF course_name.given THEN <<" in course '", course_name.value, "'">> ELSE <<>>)
    \o (IF lesson_number.given /\ lesson_number.value # 0
        THEN <<" in lesson ">> \o Str(lesson_number.value) ELSE <<>>)
    \o <<".">>

\* Step 2: the message for zero matches names the filters that were supplied.
NoResultsMessage(course_name, lesson_number) ==
    <<"No relevant content found">>
    \o (IF course_name.given THEN <<" in course '", course_name.value, "'">> ELSE <<>>)
    \o (IF lesson_number.given THEN <<" in lesson ">> \o Str(lesson_number.value) ELSE <<>>)
    \o <<".">>

\* The course title of a match, "unknown" when the metadata has none.
CourseTitle(meta) ==
    IF meta.course_title.given THEN meta.course_title.value ELSE "unknown"

\* Step 3: the display label of a match.
SourceLabel(meta) ==
    <<CourseTitle(meta)>>
    \o (IF meta.lesson_number.given
        THEN <<" - Lesson ">> \o Str(meta.lesson_number.value) ELSE <<>>)

\* The deep link resolved only for a lesson number that is not 0.
SourceLinkTruthy(meta) ==
    IF meta.lesson_number.given /\ meta.lesson_number.value # 0
    THEN GetLessonLink(CourseTitle(meta), meta.lesson_number.value)
    ELSE None

\* Step 3: the deep link, resolved only when a lesson number is present.
SourceLink(meta) ==
    IF meta.lesson_number.given
    THEN GetLessonLink(CourseTitle(meta), meta.lesson_number.value)
    ELSE None

\* Step 4: one match, its bracketed label header and then its text.
FormatMatch(m) == <<"[">> \o SourceLabel(m.metadata) \o <<"]", "\n", m.text>>

\* The formatted matches put together last match first.
RECURSIVE FormatResultsReversed(_)
FormatResultsReversed(ms) ==
    IF Len(ms) = 0 THEN <<>>
    ELSE IF Len(ms) = 1 THEN FormatMatch(ms[1])
    ELSE FormatResultsReversed(Tail(ms)) \o <<"\n\n">> \o FormatMatch(ms[1])

\* Step 4: the formatted matches in the backend's order, a blank line between.
RECURSIVE FormatResults(_)
FormatResults(ms) ==
    IF Len(ms) = 0 THEN <<>>
    ELSE IF Len(ms) = 1 THEN FormatMatch(ms[1])
    ELSE FormatMatch(ms[1]) \o <<"\n\n">> \o FormatResults(Tail(ms))

\* Step 3: the link lookups execute makes for the matches, in their order:
\* one for each match whose metadata has a lesson number.
LinkLookups(ms) ==
    LET with_lesson == SelectSeq(ms, LAMBDA m : m.metadata.lesson_number.given)
    IN [p \in 1..Len(with_lesson) |->
           [course_title |-> CourseTitle(with_lesson[p].metadata),
            lesson_number |-> with_lesson[p].metadata.lesson_number.value]]

\* The query of the searches.
SearchQuery == <<"testing concepts">>

\* The search with a lesson filter of 0 passed as absent.
StoreSearchArgsTruthy(query, course_name, lesson_number) ==
    [query |-> query, course_name |-> course_name,
     lesson_number |-> IF lesson_number.given /\ lesson_number.value # 0
                       THEN lesson_number ELSE NoLesson]

\* Step 1: the arguments of the backend's search are those of execute.
StoreSearchArgs(query, course_name, lesson_number) ==
    [query |-> query, course_name |-> course_name, lesson_number |-> lesson_number]

\* The calls one execute has made to the backend, none yet.
NoStoreCalls == [search |-> <<>>, get_lesson_link |-> <<>>]

\* The source record labelled with the course title alone.
SourceRecordTitleOnly(meta) == [text |-> <<CourseTitle(meta)>>, link |-> SourceLink(meta)]

\* Step 5: one source record per match, in the order of the formatted text.
SourceRecord(meta) == [text |-> SourceLabel(meta), link |-> SourceLink(meta)]

SourcesOf(ms) == [p \in 1..Len(ms) |-> SourceRecord(ms[p].metadata)]

\* The source list written on a backend error too: emptied.
SearchToolExecuteClearing(sources, course_name, lesson_number, found) ==
    IF found.error # None
    THEN [result |-> found.error, last_sources |-> <<>>]
    ELSE IF Len(found.matches) = 0
    THEN [result |-> NoResultsMessage(course_name, lesson_number),
          last_sources |-> sources]
    ELSE [result |-> FormatResults(found.matches),
          last_sources |-> SourcesOf(found.matches)]

\* CourseSearchTool.execute once the backend has answered `found`: the
\* text it returns and the source list it leaves behind.
SearchToolExecute(sources, course_name, lesson_number, found) ==
    IF found.error # None
    THEN [result |-> found.error, last_sources |-> sources]
    ELSE IF Len(found.matches) = 0
    THEN [result |-> NoResultsMessage(course_name, lesson_number),
          last_sources |-> sources]
    ELSE [result |-> FormatResults(found.matches),
          last_sources |-> SourcesOf(found.matches)]

(***************************************************************************)
(* Values exchanged with the Model Client.                                 *)
(***************************************************************************)
\* The arguments of a tool call, chosen by the model: no two calls have the
\* same.  A text block has none.
ToolInput(inv, pos) == [query |-> <<"tool query", inv, pos>>]

NoInput == [query |-> None]

\* A text block: the n-th invocation's block at position p carries a text
\* that no other block carries.
TextBlock(inv, pos) ==
    [type |-> "text", id |-> 0, name |-> "", input |-> NoInput,
     text |-> <<"text", inv, pos>>]

\* A tool_use block; the id is unique per invocation and position.
ToolUseBlock(inv, pos, name) ==
    [type |-> "tool_use", id |-> inv * 10 + pos, name |-> name,
     input |-> ToolInput(inv, pos), text |-> None]

\* The blocks that may sit at position pos of the inv-th response.
BlocksAt(inv, pos) ==
    {TextBlock(inv, pos)} \cup {ToolUseBlock(inv, pos, n) : n \in ToolNames}

\* All contents of length len for the inv-th response.
ContentsOfLen(inv, len) ==
    {c \in [1..len -> UNION {BlocksAt(inv, p) : p \in 1..len}] :
        \A p \in 1..len : c[p] \in BlocksAt(inv, p)}

\* A response that requests tools: stop_reason "tool_use" and at least one
\* tool_use block, with text blocks anywhere around them.
ToolUseResponses(inv) ==
    {[stop_reason |-> "tool_use", content |-> c] :
        c \in {d \in UNION {ContentsOfLen(inv, l) : l \in 1..MaxBlocks} :
                 \E p \in 1..Len(d) : d[p].type = "tool_use"}}

\* A final text answer: stop_reason "end_turn" and text blocks only.
TextResponses(inv) ==
    {[stop_reason |-> "end_turn", content |-> c] :
        c \in {d \in UNION {ContentsOfLen(inv, l) : l \in 1..MaxBlocks} :
                 \A p \in 1..Len(d) : d[p].type = "text"}}

\* The value of `response` before any response was received.
NoResponse == [stop_reason |-> "none", content |-> <<>>]

(***************************************************************************)
(* Arguments of generate_response.                                         *)
(***************************************************************************)
\* The user's question.
Query == <<"query">>

\* The `tools` argument: absent (None), an empty list, or the list of the
\* schemas of the registered tools (a schema is identified by its tool's name).
ToolsArgs ==
    { [given |-> FALSE, schemas |-> <<>>],
      [given |-> TRUE,  schemas |-> <<>>],
      [given |-> TRUE,  schemas |-> <<"search_course_content", "get_course_outline">>] }

\* The static system prompt (lines 9-46), one piece.
SYSTEM_PROMPT == <<"SYSTEM_PROMPT">>

\* The text the piece "SYSTEM_PROMPT" stands for: the lines of the prompt
\* that list the tools, give the tool usage guidelines and the response
\* protocol (lines 11-35), each cut at its bold markers.
SystemPromptText ==
    <<"Available Tools:", "\n",
      "- **", "search_course_content",
          "**: Search within course materials for specific content", "\n",
      "- **", "get_course_outline",
          "**: Get course overview with title, link, and complete lesson list", "\n",
      "Tool Usage Guidelines:", "\n",
      "- Use **", "search_course_content",
          "** for questions about specific course content or detailed educational materials", "\n",
      "- Use **", "get_course_outline",
          "** for questions about course structure, lesson lists, or course overviews", "\n",
      "- **", "Multi-round tool usage",
          "**: You can use tools up to 2 times in separate rounds for complex queries", "\n",
      "- **", "Sequential reasoning",
          "**: Use initial tool results to inform follow-up tool calls when needed", "\n",
      "- **", "Progressive information gathering",
          "**: Start broad, then narrow focus based on results", "\n",
      "- Synthesize tool results into accurate, fact-based responses", "\n",
      "- If tools yield no results, state this clearly without offering alternatives", "\n",
      "Response Protocol:", "\n",
      "- **", "General knowledge questions",
          "**: Answer using existing knowledge without using tools", "\n",
      "- **", "Course-specific content questions",
          "**: Use search_course_content first, then answer", "\n",
      "- **", "Course outline/structure questions",
          "**: Use get_course_outline first, then answer", "\n",
      "- **", "Complex queries",
          "**: Use multiple tool rounds to gather comprehensive information, then synthesize",
      "\n">>

\* The `conversation_history` argument: absent (None), the empty string, or
\* the formatted previous exchanges.  A string is a sequence of pieces.
NoHistory == [given |-> FALSE, value |-> <<>>]

Histories ==
    { NoHistory,
      [given |-> TRUE, value |-> <<>>],
      [given |-> TRUE, value |-> <<"User: previous question", "\n",
                                   "Assistant: previous answer">>] }

\* Python truthiness of the `tools` argument: None and [] are both false.
Truthy(t) == t.given /\ Len(t.schemas) > 0

(***************************************************************************)
(* State.                                                                  *)
(***************************************************************************)
(* The tool manager as a registry: tools registered under their names.     *)
(***************************************************************************)
\* No handler: what a lookup of a name nobody registered gives.
NoHandler == 0

\* Before any dispatch.
NoDispatch == [name |-> "", handler |-> NoHandler, registrations |-> 0]

\* The k-th register call registers a tool under `name`; its schema and
\* its handler are told from those of the other calls by k.
Registration(name, k) ==
    [name |-> name, schema |-> [name |-> name, version |-> k], handler |-> k]

\* The positions of a name in the registry.
PositionsOf(reg, name) == {p \in 1..Len(reg) : reg[p].name = name}

\* A registration always added at the end, the earlier one kept too.
RegisterToolAppends(reg, entry) == Append(reg, entry)

\* register: the entry of a name already present is overwritten where it
\* stands, a new name is added at the end.
RegisterTool(reg, entry) ==
    IF PositionsOf(reg, entry.name) # {}
    THEN [p \in 1..Len(reg) |-> IF reg[p].name = entry.name THEN entry ELSE reg[p]]
    ELSE Append(reg, entry)

\* schemas: the schemas of the registered tools, in the registry's order.
GetToolDefinitions(reg) == [p \in 1..Len(reg) |-> reg[p].schema]

\* dispatch: the handler looked up by name, none for an unknown name.
HandlerOf(reg, name) ==
    IF PositionsOf(reg, name) = {} THEN NoHandler
    ELSE reg[CHOOSE p \in PositionsOf(reg, name) : TRUE].handler

\* Before query has called generate_response.
NoRunArgs == [query |-> <<>>, conversation_history |-> NoHistory]

\* The queries a RAGSystem serves, the n-th being query n.
Queries == 1..MaxQueries

(***************************************************************************)
VARIABLES
    pc,             \* position of the call: "start", "single", "round",
                    \* "execute", "returned", "raised"
    tools,          \* the tools argument
    tool_manager,   \* TRUE when a tool manager was passed
    messages,       \* the transcript (local `messages`)
    round_count,    \* local `round_count`
    response,       \* the last response received from the Model Client
    block_idx,      \* position of _execute_tools in response.content
    tool_results,   \* local `tool_results` of _execute_tools
    create_calls,   \* log of client.messages.create calls
    execute_calls,  \* log of tool_manager.execute_tool calls
    answer,         \* the string returned to the caller, None before
    error,          \* the exception that escaped to the caller, "none" before
    conversation_history, \* the conversation_history argument
    system_content, \* local `system_content`, None before line 80
    last_sources,   \* the source list of the search tool, read by the registry
    search_pc,      \* CourseSearchTool.execute: "idle" or "searching"
    search_args,    \* the filters of the last call of execute
    search_found,   \* what the backend answered to the call
    search_result,  \* the string the call returned, None until it returns
    store_calls,    \* the calls the last execute made to the backend
    q_session,      \* per query: the session id it was made with, "" for none
    q_passed,       \* per query: what query passed to generate_response
    history_reads,  \* per query: its calls of get_conversation_history
    session_exchanges, \* SessionManager: the exchanges added to the session
    base_messages,  \* _handle_tool_execution: the caller's base_params["messages"]
    q_pc,           \* RAGSystem.query, per query: where the call stands
    q_dispatches,   \* per query: the tool executions its run has made
    q_sources,      \* per query: local `sources`, what the query returns
    q_resets,       \* per query: the calls of reset_sources it has made
    registry_tools, \* ToolManager: the registered tools, in the order kept
    register_log,   \* log of the register_tool calls
    dispatched      \* the last dispatch: the name, the handler invoked, and
                    \* the number of registrations made before it

run_vars == <<pc, tools, tool_manager, messages, round_count, response, block_idx,
              tool_results, create_calls, execute_calls, answer, error,
              conversation_history, system_content>>

search_vars == <<search_pc, search_args, search_found, search_result, store_calls>>

query_vars == <<q_pc, q_dispatches, q_sources, q_resets>>

session_vars == <<q_session, q_passed, history_reads, session_exchanges>>

registry_vars == <<registry_tools, register_log, dispatched>>

legacy_vars == <<base_messages>>

vars == <<run_vars, last_sources, search_vars, query_vars, registry_vars, session_vars,
          legacy_vars>>

InitWith(history) ==
    /\ pc = "start"
    /\ conversation_history = history
    /\ system_content = None
    /\ tools = [given |-> FALSE, schemas |-> <<>>]
    /\ tool_manager = FALSE
    /\ messages = <<>>
    /\ round_count = 0
    /\ response = NoResponse
    /\ block_idx = 0
    /\ tool_results = <<>>
    /\ create_calls = <<>>
    /\ execute_calls = <<>>
    /\ answer = None
    /\ error = "none"
    /\ last_sources = <<>>
    /\ search_pc = "idle"
    /\ search_args = [course_name |-> NoCourse, lesson_number |-> NoLesson]
    /\ search_found = [error |-> None, matches |-> <<>>]
    /\ search_result = None
    /\ store_calls = NoStoreCalls
    /\ q_pc = [q \in Queries |-> "idle"]
    /\ q_dispatches = [q \in Queries |-> 0]
    /\ q_sources = [q \in Queries |-> <<>>]
    /\ q_resets = [q \in Queries |-> 0]
    /\ q_session = [q \in Queries |-> ""]
    /\ q_passed = [q \in Queries |-> NoRunArgs]
    /\ history_reads = [q \in Queries |-> 0]
    /\ session_exchanges = <<>>
    /\ base_messages = <<>>
    /\ registry_tools = <<>>
    /\ register_log = <<>>
    /\ dispatched = NoDispatch

\* A call that leaves conversation_history at its default, None (line 61).
Init == InitWith(NoHistory)

\* A call with any conversation history.
HistoryInit == \E h \in Histories : InitWith(h)

(***************************************************************************)
(* Pieces of the code, one operator each.                                  *)
(***************************************************************************)
\* The history is present and also non-empty.
HistoryTruthy(h) == h.given /\ h.value # <<>>

\* The section added for any history that is not None, an empty one too.
SystemContentIfNotNone(h) ==
    IF h.given
    THEN SYSTEM_PROMPT \o <<"\n\nPrevious conversation:\n">> \o h.value
    ELSE SYSTEM_PROMPT

\* Lines 80-84: the system content, with the history when there is one.
SystemContent(h) ==
    IF HistoryTruthy(h)
    THEN SYSTEM_PROMPT \o <<"\n\nPrevious conversation:\n">> \o h.value
    ELSE SYSTEM_PROMPT

\* The protocol entered whenever schemas are supplied, manager or not.
UseSequentialToolsOnly(t, m) == Truthy(t)

\* Line 87: `if tools and tool_manager`.
UseSequential(t, m) == Truthy(t) /\ m

\* The conversation started with the query twice.
InitialMessagesTwice(q) ==
    << [role |-> "user", content |-> q], [role |-> "user", content |-> q] >>

\* Line 118: messages = [{"role": "user", "content": query}].
InitialMessages(q) == << [role |-> "user", content |-> q] >>

\* The loop left one round early.
LoopContinuesStopsEarly(rc) == rc < MAX_TOOL_ROUNDS - 1

\* The loop condition off by one.
LoopContinuesOffByOne(rc) == rc <= MAX_TOOL_ROUNDS

\* Line 121: the loop condition.
LoopContinues(rc) == rc < MAX_TOOL_ROUNDS

\* The round counter advanced by two.
NextRoundCountSkips(rc) == rc + 2

\* Line 157: round_count += 1.
NextRoundCount(rc) == rc + 1

\* A tool-enabled call that offers only the first of the schemas.
ApiParamsFirstSchema(msgs, system, t) ==
    [base |-> base_params, messages |-> msgs, system |-> system,
     has_tools |-> TRUE, tools |-> SubSeq(t.schemas, 1, 1), tool_choice |-> "auto"]

\* Lines 123-129: the parameters of a tool-enabled call.
ApiParams(msgs, system, t) ==
    [base |-> base_params, messages |-> msgs, system |-> system,
     has_tools |-> TRUE, tools |-> t.schemas, tool_choice |-> "auto"]

\* The synthesis call built like a tool-enabled call.
FinalParamsWithTools(msgs, system, t) == ApiParams(msgs, system, t)

\* The call without tools made with the bare system prompt.
FinalParamsBarePrompt(msgs, system, t) ==
    [base |-> base_params, messages |-> msgs, system |-> SYSTEM_PROMPT,
     has_tools |-> FALSE, tools |-> <<>>, tool_choice |-> "absent"]

\* Lines 93-97 and 160-164: the parameters of a call without tools.
FinalParams(msgs, system, t) ==
    [base |-> base_params, messages |-> msgs, system |-> system,
     has_tools |-> FALSE, tools |-> <<>>, tool_choice |-> "absent"]

\* `content[-1].text` in place of `content[0].text`.
LastBlockText(content) ==
    IF Len(content) = 0 THEN [ok |-> FALSE, value |-> None, error |-> "IndexError"]
    ELSE IF content[Len(content)].type # "text"
         THEN [ok |-> FALSE, value |-> None, error |-> "AttributeError"]
         ELSE [ok |-> TRUE, value |-> content[Len(content)].text, error |-> "none"]

\* `content[1].text` in place of `content[0].text`.
SecondBlockText(content) ==
    IF Len(content) < 2 THEN [ok |-> FALSE, value |-> None, error |-> "IndexError"]
    ELSE IF content[2].type # "text"
         THEN [ok |-> FALSE, value |-> None, error |-> "AttributeError"]
         ELSE [ok |-> TRUE, value |-> content[2].text, error |-> "none"]

\* `content[0].text`: IndexError on an empty list, AttributeError on a block
\* that has no text attribute (a tool_use block).
FirstBlockText(content) ==
    IF Len(content) = 0 THEN [ok |-> FALSE, value |-> None, error |-> "IndexError"]
    ELSE IF content[1].type # "text"
         THEN [ok |-> FALSE, value |-> None, error |-> "AttributeError"]
         ELSE [ok |-> TRUE, value |-> content[1].text, error |-> "none"]

\* Lines 148-152: what is returned when no tool produced a result.
AllFailedReturn(resp) ==
    IF Len(resp.content) > 0
    THEN FirstBlockText(resp.content)
    ELSE [ok |-> TRUE, value |-> FALLBACK, error |-> "none"]

\* Line 135: the response asks for tools.
UsedTools(resp) == resp.stop_reason = "tool_use"

\* The early termination of line 146 left out.
NoToolResultsIgnored(results) == FALSE

\* Line 146: `if not tool_results`.
NoToolResults(results) == results = <<>>

\* The assistant turn built from the tool_use blocks only.
AssistantMessageToolUseOnly(resp) ==
    [role |-> "assistant",
     content |-> SelectSeq(resp.content, LAMBDA b : b.type = "tool_use")]

\* Line 140: the assistant turn carries the response's content.
AssistantMessage(resp) == [role |-> "assistant", content |-> resp.content]

\* The tool results sent back as an assistant turn.
ToolResultMessageAsAssistant(results) == [role |-> "assistant", content |-> results]

\* Line 155: the tool results go back as one user turn.
ToolResultMessage(results) == [role |-> "user", content |-> results]

\* ToolManager.execute_tool: an unknown tool name and a handler that raises
\* both give a failed outcome (None); otherwise the handler's text, which is
\* the backend's error string when the backend reported one.
ExecuteTool(name, id, behaviour) ==
    IF name \notin RegisteredTools THEN None
    ELSE IF behaviour = "raises" THEN None
    ELSE IF behaviour = "backend_error" THEN SearchError
    ELSE <<"result", name, id>>

\* What the backend answers to the search of the call `id`: one chunk,
\* whose lesson number is the call's id so that a source record tells which
\* call wrote it, or an error.
FoundByCall(id, behaviour) ==
    IF behaviour = "returns_text"
    THEN [error |-> None,
          matches |-> <<[text |-> "Lesson content",
                         metadata |-> [course_title |-> Given("Course A"),
                                       lesson_number |-> Given(id)]]>>]
    ELSE [error |-> SearchError, matches |-> <<>>]

\* The source list after ToolManager.execute_tool: only the search tool,
\* when its handler does not raise, gets to write it.
SourcesAfterExecuteTool(sources, name, id, behaviour) ==
    IF name = "search_course_content" /\ behaviour # "raises"
    THEN SearchToolExecute(sources, NoCourse, NoLesson,
                           FoundByCall(id, behaviour)).last_sources
    ELSE sources

\* The result keyed by its position in place of the call's id.
CollectResultByIndex(results, block, tool_result) ==
    IF tool_result # None
    THEN Append(results, [type |-> "tool_result", tool_use_id |-> Len(results) + 1,
                           content |-> tool_result])
    ELSE results

\* The loop going on two blocks further.
NextBlockSkipsOne(idx) == idx + 2

\* Line 181: the for loop goes on to the next content block.
NextBlock(idx) == idx + 1

\* A result that is the backend's error string dropped like a failure.
CollectResultDropsErrors(results, block, tool_result) ==
    IF tool_result # None /\ tool_result # SearchError
    THEN Append(results, [type |-> "tool_result", tool_use_id |-> block.id,
                          content |-> tool_result])
    ELSE results

\* The result put in front of the results collected so far.
CollectResultInFront(results, block, tool_result) ==
    IF tool_result # None
    THEN <<[type |-> "tool_result", tool_use_id |-> block.id,
            content |-> tool_result]>> \o results
    ELSE results

\* Lines 188-195: a result is kept only if it is not None.
CollectResult(results, block, tool_result) ==
    IF tool_result # None
    THEN Append(results, [type |-> "tool_result", tool_use_id |-> block.id,
                           content |-> tool_result])
    ELSE results

(***************************************************************************)
(* Calls to the collaborators and the ways a call of generate_response     *)
(* ends.                                                                   *)
(***************************************************************************)
\* The number the next client.messages.create call has in this run.
NextInvocation == Len(create_calls) + 1

\* client.messages.create(**params) answered by resp.
LogCreate(params, resp) ==
    create_calls' = Append(create_calls,
                           [params |-> params, failed |-> FALSE, response |-> resp])

\* client.messages.create(**params) raising.
LogCreateFailure(params) ==
    create_calls' = Append(create_calls,
                           [params |-> params, failed |-> TRUE, response |-> NoResponse])

\* The failure swallowed and the call made again.
PropagateRetry(err) ==
    /\ pc' = pc
    /\ error' = error
    /\ answer' = answer

\* No except clause encloses a client.messages.create call: the exception
\* leaves generate_response.
Propagate(err) ==
    /\ pc' = "raised"
    /\ error' = err
    /\ answer' = None

\* `return <expr>.text`, where evaluating the expression gave r.
Return(r) ==
    /\ pc' = IF r.ok THEN "returned" ELSE "raised"
    /\ answer' = r.value
    /\ error' = r.error

(***************************************************************************)
(* Actions.                                                                *)
(***************************************************************************)
\* generate_response is called (lines 58-90): the arguments are chosen and
\* the branch of line 87 is taken.
GenerateResponse ==
    /\ pc = "start"
    /\ \E t \in ToolsArgs, m \in BOOLEAN :
        /\ tools' = t
        /\ tool_manager' = m
        /\ IF UseSequential(t, m)
           THEN /\ pc' = "round"
                /\ messages' = InitialMessages(Query)
           ELSE /\ pc' = "single"
                /\ messages' = messages
    /\ round_count' = 0
    /\ system_content' = SystemContent(conversation_history)
    /\ UNCHANGED <<response, block_idx, tool_results, create_calls,
                   execute_calls, answer, error, conversation_history>>
    /\ UNCHANGED <<last_sources, search_vars, query_vars, session_vars, legacy_vars, registry_vars>>

\* Lines 92-100: the single call without tools.
SingleCall ==
    /\ pc = "single"
    /\ LET params == FinalParams(InitialMessages(Query), system_content, tools) IN
       \/ /\ LogCreateFailure(params)
          /\ Propagate("ModelClientError")
          /\ UNCHANGED response
       \/ \E r \in TextResponses(NextInvocation) :
          /\ LogCreate(params, r)
          /\ response' = r
          /\ Return(FirstBlockText(r.content))
    /\ UNCHANGED <<tools, tool_manager, messages, round_count, block_idx,
                   tool_results, execute_calls, conversation_history,
                   system_content>>
    /\ UNCHANGED <<last_sources, search_vars, query_vars, session_vars, legacy_vars, registry_vars>>

\* Lines 121-140: one pass of the loop up to the call of _execute_tools.
ToolRound ==
    /\ pc = "round"
    /\ LoopContinues(round_count)
    /\ LET params == ApiParams(messages, system_content, tools) IN
       \/ /\ LogCreateFailure(params)
          /\ Propagate("ModelClientError")
          /\ UNCHANGED <<response, messages, block_idx, tool_results>>
       \/ \E r \in TextResponses(NextInvocation) \cup ToolUseResponses(NextInvocation) :
          /\ LogCreate(params, r)
          /\ response' = r
          /\ IF ~UsedTools(r)
             THEN /\ Return(FirstBlockText(r.content))
                  /\ UNCHANGED <<messages, block_idx, tool_results>>
             ELSE /\ messages' = Append(messages, AssistantMessage(r))
                  /\ tool_results' = <<>>
                  /\ block_idx' = 1
                  /\ pc' = "execute"
                  /\ UNCHANGED <<answer, error>>
    /\ UNCHANGED <<tools, tool_manager, round_count, execute_calls,
                   conversation_history, system_content>>
    /\ UNCHANGED <<last_sources, search_vars, query_vars, session_vars, legacy_vars, registry_vars>>

\* Lines 181-195: one iteration of the loop of _execute_tools.
ExecuteToolsStep ==
    /\ pc = "execute"
    /\ block_idx <= Len(response.content)
    /\ LET content_block == response.content[block_idx] IN
       IF content_block.type = "tool_use"
       THEN \E b \in RunBehaviours :
            LET tool_result == ExecuteTool(content_block.name, content_block.id, b) IN
            /\ execute_calls' = Append(execute_calls,
                   [invocation |-> Len(create_calls), name |-> content_block.name,
                    input |-> content_block.input,
                    id |-> content_block.id, result |-> tool_result])
            /\ tool_results' = CollectResult(tool_results, content_block, tool_result)
            /\ last_sources' = SourcesAfterExecuteTool(last_sources,
                   content_block.name, content_block.id, b)
       ELSE UNCHANGED <<execute_calls, tool_results, last_sources>>
    /\ block_idx' = NextBlock(block_idx)
    /\ UNCHANGED <<pc, tools, tool_manager, messages, round_count, response,
                   create_calls, answer, error, conversation_history,
                   system_content>>
    /\ UNCHANGED <<search_vars, query_vars, session_vars, legacy_vars, registry_vars>>

\* Lines 145-157: _execute_tools has returned.
FinishRound ==
    /\ pc = "execute"
    /\ block_idx > Len(response.content)
    /\ IF NoToolResults(tool_results)
       THEN /\ Return(AllFailedReturn(response))
            /\ UNCHANGED <<messages, round_count>>
       ELSE /\ messages' = Append(messages, ToolResultMessage(tool_results))
            /\ round_count' = NextRoundCount(round_count)
            /\ pc' = "round"
            /\ UNCHANGED <<answer, error>>
    /\ UNCHANGED <<tools, tool_manager, response, block_idx, tool_results,
                   create_calls, execute_calls, conversation_history,
                   system_content>>
    /\ UNCHANGED <<last_sources, search_vars, query_vars, session_vars, legacy_vars, registry_vars>>

\* Lines 159-167: the loop has ended, the synthesis call without tools.
FinalSynthesis ==
    /\ pc = "round"
    /\ ~LoopContinues(round_count)
    /\ LET params == FinalParams(messages, system_content, tools) IN
       \/ /\ LogCreateFailure(params)
          /\ Propagate("ModelClientError")
          /\ UNCHANGED response
       \/ \E r \in TextResponses(NextInvocation) :
          /\ LogCreate(params, r)
          /\ response' = r
          /\ Return(FirstBlockText(r.content))
    /\ UNCHANGED <<tools, tool_manager, messages, round_count, block_idx,
                   tool_results, execute_calls, conversation_history,
                   system_content>>
    /\ UNCHANGED <<last_sources, search_vars, query_vars, session_vars, legacy_vars, registry_vars>>

(***************************************************************************)
(* The legacy _handle_tool_execution (lines 199-235), called on its own    *)
(* with the response that requested tools and the parameters of the call   *)
(* that got it.                                                            *)
(***************************************************************************)
\* The `messages` of the caller's base_params: the query alone, or the query
\* after an earlier question and its answer.
CallerMessages ==
    { InitialMessages(Query),
      << [role |-> "user", content |-> <<"earlier question">>],
         [role |-> "assistant", content |-> <<"earlier answer">>] >>
          \o InitialMessages(Query) }

\* The caller's list being the list the method appends to.
CallerListAliased(base, local) == local

\* Line 214: `.copy()` gives the method a list of its own, so what it
\* appends does not reach the caller's list.
CallerList(base, local) == base

\* Lines 213-217: the copy is made and the assistant turn appended to it;
\* _execute_tools starts on the response.
HandleToolExecution ==
    /\ pc = "start"
    /\ \E base \in CallerMessages, initial_response \in ToolUseResponses(1),
          h \in Histories :
        /\ response' = initial_response
        /\ messages' = Append(base, AssistantMessage(initial_response))
        /\ base_messages' = CallerList(base, messages')
        /\ system_content' = SystemContent(h)
        /\ conversation_history' = h
    /\ tool_manager' = TRUE
    /\ block_idx' = 1
    /\ tool_results' = <<>>
    /\ pc' = "execute"
    /\ UNCHANGED <<tools, round_count, create_calls, execute_calls, answer, error>>
    /\ UNCHANGED <<last_sources, search_vars, query_vars, session_vars, registry_vars>>

\* Lines 222-235: the results, if any, are appended as one user turn and the
\* final call is made without tools.
LegacyFinalCall ==
    /\ pc = "execute"
    /\ block_idx > Len(response.content)
    /\ messages' = IF NoToolResults(tool_results) THEN messages
                   ELSE Append(messages, ToolResultMessage(tool_results))
    /\ base_messages' = CallerList(base_messages, messages')
    /\ LET params == FinalParams(messages', system_content, tools) IN
       \/ /\ LogCreateFailure(params)
          /\ Propagate("ModelClientError")
          /\ UNCHANGED response
       \/ \E r \in TextResponses(2) :
          /\ LogCreate(params, r)
          /\ response' = r
          /\ Return(FirstBlockText(r.content))
    /\ UNCHANGED <<tools, tool_manager, round_count, block_idx, tool_results,
                   execute_calls, conversation_history, system_content>>
    /\ UNCHANGED <<last_sources, search_vars, query_vars, session_vars, registry_vars>>

(***************************************************************************)
(* CourseSearchTool.execute on its own: calls of the tool, one after the   *)
(* other, on one tool instance.                                            *)
(***************************************************************************)
\* execute is called and delegates to the backend's search.
SearchCall ==
    /\ search_pc = "idle"
    /\ \E c \in CourseFilters, n \in LessonFilters :
        search_args' = [course_name |-> c, lesson_number |-> n]
    /\ search_found' = [error |-> None, matches |-> <<>>]
    /\ search_result' = None
    /\ store_calls' =
           [NoStoreCalls EXCEPT !.search =
               <<StoreSearchArgs(SearchQuery, search_args'.course_name,
                                 search_args'.lesson_number)>>]
    /\ search_pc' = "searching"
    /\ UNCHANGED <<run_vars, registry_vars, last_sources, query_vars, session_vars, legacy_vars>>

\* The backend answers and execute returns.
SearchReturn ==
    /\ search_pc = "searching"
    /\ \E found \in SearchResults :
        LET done == SearchToolExecute(last_sources, search_args.course_name,
                                      search_args.lesson_number, found) IN
        /\ search_found' = found
        /\ search_result' = done.result
        /\ store_calls' =
               [store_calls EXCEPT !.get_lesson_link =
                   IF found.error = None THEN LinkLookups(found.matches) ELSE <<>>]
        /\ last_sources' = done.last_sources
    /\ search_pc' = "idle"
    /\ UNCHANGED <<run_vars, registry_vars, search_args, query_vars, session_vars, legacy_vars>>

SearchNext == SearchCall \/ SearchReturn

SearchSpec == Init /\ [][SearchNext]_vars

(***************************************************************************)
(* RAGSystem.query: the run of generate_response, then the sources are     *)
(* read from the tool manager and the tool manager's sources are reset.    *)
(* One RAGSystem has one tool manager and one search tool, whose source    *)
(* list is last_sources.  The run is seen here from the tool manager: the  *)
(* tool executions it makes, at most MaxBlocks in each of its              *)
(* MAX_TOOL_ROUNDS rounds, and how it ends.                                *)
(***************************************************************************)
\* Most tool executions of one run.
MaxDispatches == MAX_TOOL_ROUNDS * MaxBlocks

\* The id of the k-th tool call of the run of query q.
CallId(q, k) == q * 10 + k

\* ToolManager.get_last_sources: the source list of the search tool.
GetLastSources(sources) == sources

\* reset_sources leaving the list as it is.
ResetSourcesKeeps(sources) == sources

\* ToolManager.reset_sources: the source list is emptied.
ResetSources(sources) == <<>>

\* The sessions a query may belong to, and the session_id of a query made
\* without one (None).
SessionIds == {"session_1", "session_2"}
NoSession == ""

\* The text of query q, the prompt query builds from it, and the answer of
\* its run.
QueryText(q) == <<"question ", Digits[q + 1]>>
Prompt(q) == <<"Answer this question about course materials: ">> \o QueryText(q)
Answer(q) == <<"answer ", Digits[q + 1]>>

\* SessionManager.get_conversation_history: None for a session without an
\* exchange, else the exchanges as text, oldest first.
RECURSIVE FormatExchanges(_)
FormatExchanges(exchanges) ==
    IF Len(exchanges) = 0 THEN <<>>
    ELSE (IF Len(exchanges) = 1 THEN <<>>
          ELSE FormatExchanges(SubSeq(exchanges, 1, Len(exchanges) - 1)) \o <<"\n">>)
         \o <<"User: ">> \o exchanges[Len(exchanges)].query
         \o <<"\n", "Assistant: ">> \o exchanges[Len(exchanges)].answer

GetConversationHistory(exchanges, session_id) ==
    LET own == SelectSeq(exchanges, LAMBDA e : e.session_id = session_id) IN
    IF Len(own) = 0 THEN NoHistory
    ELSE [given |-> TRUE, value |-> FormatExchanges(own)]

\* The exchange recorded with the prompt in place of the user's query.
ExchangeOfPrompt(q) ==
    [session_id |-> q_session[q], query |-> Prompt(q), answer |-> Answer(q)]

\* add_exchange(session_id, query, response): what query hands over.
ExchangeOf(q) ==
    [session_id |-> q_session[q], query |-> QueryText(q), answer |-> Answer(q)]

\* query is called without a session id and calls generate_response.
QueryStart(q) ==
    /\ q_pc[q] = "idle"
    /\ q_pc' = [q_pc EXCEPT ![q] = "running"]
    /\ q_passed' = [q_passed EXCEPT ![q] =
                       [query |-> Prompt(q), conversation_history |-> NoHistory]]
    /\ UNCHANGED <<q_session, history_reads, session_exchanges>>
    /\ UNCHANGED <<run_vars, registry_vars, legacy_vars, last_sources, search_vars, q_dispatches, q_sources,
                   q_resets>>

\* query is called with a session id: it reads the history of the session
\* and calls generate_response with it.
QueryStartWithSession(q) ==
    /\ q_pc[q] = "idle"
    /\ q_pc' = [q_pc EXCEPT ![q] = "running"]
    /\ \E session_id \in SessionIds :
        /\ q_session' = [q_session EXCEPT ![q] = session_id]
        /\ q_passed' = [q_passed EXCEPT ![q] =
               [query |-> Prompt(q),
                conversation_history |->
                    GetConversationHistory(session_exchanges, session_id)]]
    /\ history_reads' = [history_reads EXCEPT ![q] = @ + 1]
    /\ UNCHANGED session_exchanges
    /\ UNCHANGED <<run_vars, registry_vars, legacy_vars, last_sources, search_vars, q_dispatches, q_sources,
                   q_resets>>

\* The run executes one tool call (ai_generator.py line 183).
RunExecuteTool(q) ==
    /\ q_pc[q] = "running"
    /\ q_dispatches[q] < MaxDispatches
    /\ \E name \in ToolNames, b \in HandlerBehaviours :
        last_sources' = SourcesAfterExecuteTool(last_sources, name,
                            CallId(q, q_dispatches[q] + 1), b)
    /\ q_dispatches' = [q_dispatches EXCEPT ![q] = @ + 1]
    /\ UNCHANGED <<run_vars, registry_vars, session_vars, legacy_vars, search_vars, q_pc, q_sources, q_resets>>

\* generate_response returns its answer.
RunReturns(q) ==
    /\ q_pc[q] = "running"
    /\ q_pc' = [q_pc EXCEPT ![q] = "completed"]
    /\ UNCHANGED <<run_vars, registry_vars, session_vars, legacy_vars, last_sources,
                   search_vars, q_dispatches, q_sources,
                   q_resets>>

\* generate_response raises (the Model Client failed) and so does query.
RunRaises(q) ==
    /\ q_pc[q] = "running"
    /\ q_pc' = [q_pc EXCEPT ![q] = "raised"]
    /\ UNCHANGED <<run_vars, registry_vars, session_vars, legacy_vars, last_sources,
                   search_vars, q_dispatches, q_sources,
                   q_resets>>

\* sources = self.tool_manager.get_last_sources()
QueryReadsSources(q) ==
    /\ q_pc[q] = "completed"
    /\ q_sources' = [q_sources EXCEPT ![q] = GetLastSources(last_sources)]
    /\ q_pc' = [q_pc EXCEPT ![q] = "read"]
    /\ UNCHANGED <<run_vars, registry_vars, session_vars, legacy_vars, last_sources,
                   search_vars, q_dispatches, q_resets>>

\* self.tool_manager.reset_sources()
QueryResetsSources(q) ==
    /\ q_pc[q] = "read"
    /\ last_sources' = ResetSources(last_sources)
    /\ q_resets' = [q_resets EXCEPT ![q] = @ + 1]
    /\ q_pc' = [q_pc EXCEPT ![q] = "reset"]
    /\ UNCHANGED <<run_vars, registry_vars, session_vars, legacy_vars, search_vars, q_dispatches, q_sources>>

\* With a session id the exchange is added to the session; query returns
\* the answer and the sources.
QueryReturns(q) ==
    /\ q_pc[q] = "reset"
    /\ q_pc' = [q_pc EXCEPT ![q] = "returned"]
    /\ session_exchanges' = IF q_session[q] # NoSession
                            THEN Append(session_exchanges, ExchangeOf(q))
                            ELSE session_exchanges
    /\ UNCHANGED <<q_session, q_passed, history_reads>>
    /\ UNCHANGED <<run_vars, registry_vars, legacy_vars, last_sources, search_vars, q_dispatches, q_sources,
                   q_resets>>

\* The steps of a query once it is called.
QuerySteps(q) ==
    \/ RunExecuteTool(q)
    \/ RunReturns(q)
    \/ RunRaises(q)
    \/ QueryReadsSources(q)
    \/ QueryResetsSources(q)
    \/ QueryReturns(q)

\* Queries one after the other: query q is called when every query before
\* it has returned or raised.
QueryStartInTurn(q) ==
    /\ \A o \in Queries : o < q => q_pc[o] \in {"returned", "raised"}
    /\ QueryStart(q)

QueryNext == \E q \in Queries : QueryStartInTurn(q) \/ QuerySteps(q)

QuerySpec == Init /\ [][QueryNext]_vars

\* Queries one after the other, each with or without a session id.
QueryStartWithSessionInTurn(q) ==
    /\ \A o \in Queries : o < q => q_pc[o] \in {"returned", "raised"}
    /\ QueryStartWithSession(q)

\* The steps of a query whose run answers without a tool call: what the
\* tools leave in the source list plays no part in the session.
SessionSteps(q) ==
    \/ RunReturns(q)
    \/ RunRaises(q)
    \/ QueryReadsSources(q)
    \/ QueryResetsSources(q)
    \/ QueryReturns(q)

SessionNext ==
    \E q \in Queries :
        QueryStartInTurn(q) \/ QueryStartWithSessionInTurn(q) \/ SessionSteps(q)

SessionSpec == Init /\ [][SessionNext]_vars

\* Two queries on the same RAGSystem at the same time, each on its own
\* thread: either is called at any moment and their steps interleave.
ConcurrentQueries == {1, 2}

ConcurrentNext == \E q \in ConcurrentQueries : QueryStart(q) \/ QuerySteps(q)

ConcurrentSpec == Init /\ [][ConcurrentNext]_vars

(***************************************************************************)
(* The tool manager on its own: register calls and dispatches.             *)
(***************************************************************************)
\* register_tool(tool), for a tool of any of the names.
Register ==
    /\ Len(register_log) < MaxRegistrations
    /\ \E name \in RegisteredTools :
        LET entry == Registration(name, Len(register_log) + 1) IN
        /\ registry_tools' = RegisterTool(registry_tools, entry)
        /\ register_log' = Append(register_log, entry)
    /\ UNCHANGED <<run_vars, last_sources, search_vars, query_vars, session_vars, legacy_vars, dispatched>>

\* execute_tool(name): the lookup of the handler to invoke.
Dispatch ==
    /\ \E name \in RegisteredTools \cup ToolNames :
        dispatched' = [name |-> name, handler |-> HandlerOf(registry_tools, name),
                       registrations |-> Len(register_log)]
    /\ UNCHANGED <<run_vars, last_sources, search_vars, query_vars, session_vars, legacy_vars,
                   registry_tools, register_log>>

RegistryNext == Register \/ Dispatch

RegistrySpec == Init /\ [][RegistryNext]_vars

Next ==
    \/ GenerateResponse
    \/ SingleCall
    \/ ToolRound
    \/ ExecuteToolsStep
    \/ FinishRound
    \/ FinalSynthesis

Spec == Init /\ [][Next]_vars

\* generate_response is a sequential call: a step that can be taken is
\* taken.
FairSpec == Spec /\ WF_vars(Next)

\* One call of generate_response with any conversation history.
HistorySpec == HistoryInit /\ [][Next]_vars

\* One call of the legacy _handle_tool_execution.
LegacyNext == HandleToolExecution \/ ExecuteToolsStep \/ LegacyFinalCall

LegacySpec == Init /\ [][LegacyNext]_vars

Terminated == pc \in {"returned", "raised"}

TypeOK ==
    /\ pc \in {"start", "single", "round", "execute", "returned", "raised"}
    /\ round_count \in 0..MAX_TOOL_ROUNDS
    /\ tool_manager \in BOOLEAN
    /\ tools \in ToolsArgs
    /\ search_pc \in {"idle", "searching"}
    /\ search_args \in [course_name : CourseFilters, lesson_number : LessonFilters]
    /\ search_found \in SearchResults
    /\ Len(store_calls.search) <= 1
    /\ q_session \in [Queries -> SessionIds \cup {NoSession}]
    /\ base_messages \in CallerMessages \cup {<<>>}
    /\ history_reads \in [Queries -> 0..1]
    /\ Len(session_exchanges) <= MaxQueries
    /\ \A q \in Queries : q_passed[q].query \in {<<>>, Prompt(q)}
    /\ Len(store_calls.get_lesson_link) <= MaxMatches
    /\ q_pc \in [Queries -> {"idle", "running", "completed", "read", "reset",
                              "returned", "raised"}]
    /\ q_dispatches \in [Queries -> 0..MaxDispatches]
    /\ q_resets \in [Queries -> 0..1]

(***************************************************************************)
(* Observations on the two call logs.                                      *)
(***************************************************************************)
\* The i-th model invocation was answered with a request for tools.
RequestsTools(i) ==
    /\ i <= Len(create_calls)
    /\ ~create_calls[i].failed
    /\ create_calls[i].response.stop_reason = "tool_use"

\* The i-th model invocation was answered without a request for tools.
AnswersWithoutTools(i) ==
    /\ i <= Len(create_calls)
    /\ ~create_calls[i].failed
    /\ create_calls[i].response.stop_reason # "tool_use"

\* The text of a response: the text of its first text block, None if it has
\* no text block.
ResponseText(resp) ==
    IF \E p \in 1..Len(resp.content) : resp.content[p].type = "text"
    THEN LET first == CHOOSE p \in 1..Len(resp.content) :
                        /\ resp.content[p].type = "text"
                        /\ \A q \in 1..(p - 1) : resp.content[q].type # "text"
         IN resp.content[first].text
    ELSE None

\* The execute_tool calls made for the response of the i-th invocation.
BatchOf(i) == {k \in 1..Len(execute_calls) : execute_calls[k].invocation = i}

\* The invocations whose response led to at least one execute_tool call.
DispatchBatches == {execute_calls[k].invocation : k \in 1..Len(execute_calls)}

\* Some call of the i-th batch produced an outcome.
BatchProduced(i) == \E k \in BatchOf(i) : execute_calls[k].result # None

\* The ids of the tool calls the i-th response asked for.
RequestedIds(i) ==
    {create_calls[i].response.content[p].id :
        p \in {q \in 1..Len(create_calls[i].response.content) :
                 create_calls[i].response.content[q].type = "tool_use"}}

\* Every tool call of the i-th response was dispatched and every one failed.
AllFailedBatch(i) ==
    /\ RequestsTools(i)
    /\ RequestedIds(i) = {execute_calls[k].id : k \in BatchOf(i)}
    /\ \A k \in BatchOf(i) : execute_calls[k].result = None

\* The run took the multi-round path.
Sequential == pc # "start" /\ UseSequential(tools, tool_manager)

(***************************************************************************)
(* C1.  A run with tools supplied makes at most MAX_TOOL_ROUNDS + 1 = 3    *)
(* model invocations and at most MAX_TOOL_ROUNDS = 2 dispatch batches, and *)
(* it terminates.                                                          *)
(***************************************************************************)
C1_Bounds ==
    Sequential =>
        /\ Len(create_calls) <= MAX_TOOL_ROUNDS + 1
        /\ Cardinality(DispatchBatches) <= MAX_TOOL_ROUNDS

C1_BoundedRun == []C1_Bounds /\ <>Terminated

C1_Witness ==
    /\ Sequential
    /\ Terminated
    /\ Len(create_calls) = MAX_TOOL_ROUNDS + 1
    /\ Cardinality(DispatchBatches) = MAX_TOOL_ROUNDS

(***************************************************************************)
(* C2.  As claimed: whenever both tool-enabled rounds request tool calls,  *)
(* a run that returns an answer has made exactly three model invocations,  *)
(* the third carried no tool schemas and no tool choice, and the third's   *)
(* text is the answer.                                                     *)
(***************************************************************************)
C2_Original ==
    (Sequential /\ pc = "returned" /\ RequestsTools(1) /\ RequestsTools(2)) =>
        /\ Len(create_calls) = 3
        /\ ~create_calls[3].params.has_tools
        /\ create_calls[3].params.tool_choice = "absent"
        /\ answer = ResponseText(create_calls[3].response)

(***************************************************************************)
(* C2, amended.  Whenever both tool-enabled rounds request tool calls and  *)
(* the dispatch batch of each round produces at least one outcome, the     *)
(* finished run has made exactly three model invocations, the third        *)
(* carried no tool schemas and no tool choice and, unless the Model Client *)
(* failed on it, the third's text is the answer.                           *)
(***************************************************************************)
C2_ForcedSynthesis ==
    (Sequential /\ Terminated /\ RequestsTools(1) /\ RequestsTools(2)
       /\ BatchProduced(1) /\ BatchProduced(2)) =>
        /\ Len(create_calls) = 3
        /\ create_calls[1].params.has_tools
        /\ create_calls[2].params.has_tools
        /\ ~create_calls[3].params.has_tools
        /\ create_calls[3].params.tool_choice = "absent"
        /\ ~create_calls[3].failed =>
              /\ pc = "returned"
              /\ answer = ResponseText(create_calls[3].response)

C2_Witness ==
    /\ pc = "returned"
    /\ RequestsTools(1) /\ RequestsTools(2)
    /\ BatchProduced(1) /\ BatchProduced(2)
    /\ Len(create_calls) = 3
    /\ answer = ResponseText(create_calls[3].response)

(***************************************************************************)
(* C3.  When round 1 requests tool calls and round 2's response requests   *)
(* none, exactly two model invocations were made, exactly one dispatch     *)
(* batch was executed and round 2's text is the answer.                    *)
(***************************************************************************)
C3_StopAfterRoundTwo ==
    (Sequential /\ RequestsTools(1) /\ AnswersWithoutTools(2)) =>
        /\ Len(create_calls) = 2
        /\ DispatchBatches = {1}
        /\ pc = "returned"
        /\ answer = ResponseText(create_calls[2].response)

C3_Witness ==
    /\ Sequential
    /\ RequestsTools(1) /\ AnswersWithoutTools(2)
    /\ pc = "returned"
    /\ Len(execute_calls) >= 1

(***************************************************************************)
(* C4.  When tools are supplied and round 1's response requests no tool    *)
(* call, exactly one model invocation was made, no tool was dispatched and *)
(* that response's text is the answer.                                     *)
(***************************************************************************)
C4_DirectAnswer ==
    (Sequential /\ AnswersWithoutTools(1)) =>
        /\ Len(create_calls) = 1
        /\ create_calls[1].params.has_tools
        /\ execute_calls = <<>>
        /\ pc = "returned"
        /\ answer = ResponseText(create_calls[1].response)

C4_Witness ==
    /\ Sequential
    /\ AnswersWithoutTools(1)
    /\ pc = "returned"
    /\ answer = create_calls[1].response.content[1].text

(***************************************************************************)
(* C5.  When no tools are supplied, the finished run has made exactly one  *)
(* model invocation, it carried no tool schemas, no tool was dispatched,   *)
(* and the invocation's text is the answer, unchanged.                     *)
(***************************************************************************)
C5_NoTools ==
    (pc # "start" /\ ~Truthy(tools) /\ Terminated) =>
        /\ Len(create_calls) = 1
        /\ ~create_calls[1].params.has_tools
        /\ create_calls[1].params.tools = <<>>
        /\ create_calls[1].params.messages = InitialMessages(Query)
        /\ execute_calls = <<>>
        /\ ~create_calls[1].failed =>
              /\ pc = "returned"
              /\ answer = ResponseText(create_calls[1].response)

C5_Witness ==
    /\ pc = "returned"
    /\ ~Truthy(tools)
    /\ Len(create_calls) = 1
    /\ answer = ResponseText(create_calls[1].response)
    /\ answer # None

(***************************************************************************)
(* C6.  Once every tool call of a round has been dispatched and has        *)
(* failed, the run is over: that round's model invocation is the last one. *)
(***************************************************************************)
C6_AllFailedStops ==
    \A i \in 1..Len(create_calls) :
        (AllFailedBatch(i) /\ pc # "execute") =>
            /\ Terminated
            /\ Len(create_calls) = i

C6_Witness ==
    /\ Terminated
    /\ AllFailedBatch(2)
    /\ Len(create_calls) = 2

(***************************************************************************)
(* C7.  As claimed: when the dispatch batch of the last response yields no *)
(* outcome, the run returns that response's text if it has any, wherever   *)
(* the text block sits, and the fixed fallback string if it has none.      *)
(***************************************************************************)
C7_AllFailedAnswer ==
    (Sequential /\ Terminated /\ AllFailedBatch(Len(create_calls))) =>
        /\ pc = "returned"
        /\ answer = IF ResponseText(create_calls[Len(create_calls)].response) # None
                    THEN ResponseText(create_calls[Len(create_calls)].response)
                    ELSE FALLBACK

(***************************************************************************)
(* C8.  As claimed: a finished run either returned a string or raised a    *)
(* Model Client failure, nothing else escapes; and a failed tool call does *)
(* not keep the other tool calls of its response from being dispatched.    *)
(***************************************************************************)
C8_OnlyModelFailureEscapes ==
    /\ Terminated =>
          \/ pc = "returned" /\ answer # None /\ error = "none"
          \/ /\ pc = "raised"
             /\ error = "ModelClientError"
             /\ create_calls[Len(create_calls)].failed
    /\ \A i \in 1..Len(create_calls) :
          (RequestsTools(i) /\ (pc # "execute" \/ i < Len(create_calls))) =>
              RequestedIds(i) = {execute_calls[k].id : k \in BatchOf(i)}

(***************************************************************************)
(* C9.  A Model Client failure on any invocation ends the run with that    *)
(* failure: the failing invocation is the last one (no retry, no later     *)
(* invocation), no tool is dispatched after it and no answer is returned.  *)
(***************************************************************************)
C9_ModelFailurePropagates ==
    \A i \in 1..Len(create_calls) :
        create_calls[i].failed =>
            /\ i = Len(create_calls)
            /\ pc = "raised"
            /\ error = "ModelClientError"
            /\ answer = None
            /\ \A k \in 1..Len(execute_calls) : execute_calls[k].invocation < i

C9_Witness ==
    /\ pc = "raised"
    /\ Len(create_calls) = MAX_TOOL_ROUNDS + 1
    /\ create_calls[MAX_TOOL_ROUNDS + 1].failed
    /\ ~create_calls[MAX_TOOL_ROUNDS + 1].params.has_tools
    /\ Len(execute_calls) >= MAX_TOOL_ROUNDS

(***************************************************************************)
(* C10.  In every transcript passed to the Model Client, each assistant    *)
(* turn that carries tool calls is immediately followed by a tool-result   *)
(* turn; the ids of its outcomes are ids of that assistant turn's tool     *)
(* calls, and every tool call has an outcome except the calls that failed. *)
(***************************************************************************)
\* The ids of the tool calls of an assistant turn.
ToolCallIds(turn) ==
    {turn.content[p].id :
        p \in {q \in 1..Len(turn.content) : turn.content[q].type = "tool_use"}}

\* The turn consists of tool results.
IsToolResultTurn(turn) ==
    /\ turn.role = "user"
    /\ Len(turn.content) > 0
    /\ \A p \in 1..Len(turn.content) : turn.content[p].type = "tool_result"

\* The ids the outcomes of a tool-result turn answer.
OutcomeIds(turn) == {turn.content[p].tool_use_id : p \in 1..Len(turn.content)}

\* The ids of the calls for which execute_tool gave no result.
FailedIds == {execute_calls[k].id :
                 k \in {j \in 1..Len(execute_calls) : execute_calls[j].result = None}}

PairedTranscript(msgs) ==
    \A k \in 1..Len(msgs) :
        (msgs[k].role = "assistant" /\ ToolCallIds(msgs[k]) # {}) =>
            /\ k < Len(msgs)
            /\ IsToolResultTurn(msgs[k + 1])
            /\ OutcomeIds(msgs[k + 1]) \subseteq ToolCallIds(msgs[k])
            /\ ToolCallIds(msgs[k]) \ FailedIds \subseteq OutcomeIds(msgs[k + 1])

C10_CallsPairedWithOutcomes ==
    \A i \in 1..Len(create_calls) : PairedTranscript(create_calls[i].params.messages)

C10_Witness ==
    /\ Len(create_calls) = MAX_TOOL_ROUNDS + 1
    /\ \E k \in 1..Len(create_calls[3].params.messages) :
          LET msgs == create_calls[3].params.messages IN
          /\ msgs[k].role = "assistant"
          /\ Cardinality(ToolCallIds(msgs[k])) = 2
          /\ Cardinality(OutcomeIds(msgs[k + 1])) = 1

(***************************************************************************)
(* C11.  In every transcript passed to the Model Client, the outcomes of a *)
(* tool-result turn stand in the same relative order as the tool calls of  *)
(* the assistant turn they answer.                                         *)
(***************************************************************************)
\* The ids of the tool calls of an assistant turn, in the turn's order.
ToolCallIdSeq(turn) ==
    LET calls == SelectSeq(turn.content, LAMBDA b : b.type = "tool_use")
    IN [p \in 1..Len(calls) |-> calls[p].id]

\* The ids the outcomes of a tool-result turn answer, in the turn's order.
OutcomeIdSeq(turn) == [p \in 1..Len(turn.content) |-> turn.content[p].tool_use_id]

OrderedTranscript(msgs) ==
    \A k \in 1..(Len(msgs) - 1) :
        (msgs[k].role = "assistant" /\ IsToolResultTurn(msgs[k + 1])) =>
            OutcomeIdSeq(msgs[k + 1]) =
                SelectSeq(ToolCallIdSeq(msgs[k]),
                          LAMBDA x : x \in OutcomeIds(msgs[k + 1]))

C11_OutcomesInCallOrder ==
    \A i \in 1..Len(create_calls) : OrderedTranscript(create_calls[i].params.messages)

C11_Witness ==
    /\ Len(create_calls) >= 2
    /\ LET msgs == create_calls[2].params.messages IN
       /\ Len(msgs) = 3
       /\ ToolCallIdSeq(msgs[2]) = <<11, 12>>
       /\ OutcomeIdSeq(msgs[3]) = <<11, 12>>

(***************************************************************************)
(* C12.  When a dispatch batch with both failed and successful calls is    *)
(* over, the run goes on: the next step appends one tool-result turn with  *)
(* exactly the produced outcomes, in order and with nothing for the failed *)
(* calls, adds one to the round counter and ends neither with an answer    *)
(* nor with an error; and the step after it is a model invocation.         *)
(***************************************************************************)
\* The outcomes the i-th batch produced, as tool results, in dispatch order.
ProducedOutcomes(i) ==
    LET produced == SelectSeq(execute_calls,
                              LAMBDA e : e.invocation = i /\ e.result # None)
    IN [p \in 1..Len(produced) |->
           [type |-> "tool_result", tool_use_id |-> produced[p].id,
            content |-> produced[p].result]]

\* _execute_tools has gone through the whole response, some call failed and
\* some call produced an outcome.
MixedBatchOver ==
    /\ pc = "execute"
    /\ block_idx > Len(response.content)
    /\ BatchProduced(Len(create_calls))
    /\ \E k \in BatchOf(Len(create_calls)) : execute_calls[k].result = None

C12_MixedBatchContinues ==
    [][ /\ MixedBatchOver =>
            /\ pc' = "round"
            /\ round_count' = round_count + 1
            /\ messages' = Append(messages,
                   [role |-> "user", content |-> ProducedOutcomes(Len(create_calls))])
            /\ create_calls' = create_calls
            /\ answer' = None
            /\ error' = "none"
        /\ pc = "round" => Len(create_calls') = Len(create_calls) + 1 ]_vars

C12_Witness ==
    /\ pc = "round"
    /\ round_count = 1
    /\ Len(messages) = 3
    /\ Len(messages[3].content) = 1
    /\ Cardinality(BatchOf(1)) = 2
    /\ \E k \in BatchOf(1) : execute_calls[k].result = None

(***************************************************************************)
(* C13.  When the run has returned, the source list holds no record that a *)
(* search of an earlier round wrote if a later round dispatched a search   *)
(* that came back with an outcome (its matches or a backend error string). *)
(***************************************************************************)
\* The source record the search of the call `id` writes when it finds its chunk.
SourceOfCall(id) == SourceRecord(FoundByCall(id, "returns_text").matches[1].metadata)

\* The source records the searches of the i-th batch can have written.
SourcesOfBatch(i) == {SourceOfCall(execute_calls[k].id) : k \in BatchOf(i)}

\* A search of the i-th batch came back with an outcome.
SearchAnswered(i) ==
    \E k \in BatchOf(i) : /\ execute_calls[k].name = "search_course_content"
                          /\ execute_calls[k].result # None

C13_SourcesOfLastBatch ==
    pc = "returned" =>
        \A i \in DispatchBatches, j \in DispatchBatches :
            (i < j /\ SearchAnswered(j)) =>
                \A p \in 1..Len(last_sources) : last_sources[p] \notin SourcesOfBatch(i)

(***************************************************************************)
(* C14.  After every execution of the Content Search tool that the backend *)
(* answered without an error, the source list is as long as the list of    *)
(* matches of that execution.                                              *)
(***************************************************************************)
C14_LengthIsMatchCount ==
    (search_pc = "idle" /\ search_result # None /\ search_found.error = None) =>
        Len(last_sources) = Len(search_found.matches)

(***************************************************************************)
(* C15.  In a query, the sources are read after the run has completed and  *)
(* before the reset: the list read is the tool manager's list as the run   *)
(* left it, it is the list the query returns, the reset is made once by a  *)
(* query that returns and not at all by one that raises, and the tool      *)
(* manager's list is empty when the query returns.                         *)
(***************************************************************************)
C15_ReadThenReset ==
    [][\A q \in Queries :
        /\ (q_pc[q] = "completed" /\ q_pc'[q] = "completed") =>
                last_sources' = last_sources
        /\ (q_pc[q] = "completed" /\ q_pc'[q] # "completed") =>
                /\ q_sources'[q] = last_sources
                /\ last_sources' = last_sources
                /\ q_resets[q] = 0 /\ q_resets'[q] = 0
        /\ q_pc[q] \in {"read", "reset", "returned"} => q_sources'[q] = q_sources[q]
        /\ (q_pc[q] # "returned" /\ q_pc'[q] = "returned") =>
                /\ last_sources' = <<>>
                /\ q_resets'[q] = 1
        /\ q_pc'[q] = "raised" => q_resets'[q] = 0 ]_vars

C15_Witness ==
    /\ q_pc[1] = "returned"
    /\ Len(q_sources[1]) = 1
    /\ q_resets[1] = 1
    /\ last_sources = <<>>

(***************************************************************************)
(* C16.  With two queries at the same time, the sources a query returns    *)
(* are records its own run's searches wrote.                               *)
(***************************************************************************)
\* The source records the searches of the run of query q can write.
OwnSources(q) == {SourceOfCall(CallId(q, k)) : k \in 1..MaxDispatches}

C16_OnlyOwnSources ==
    \A q \in ConcurrentQueries :
        q_pc[q] = "returned" =>
            \A p \in 1..Len(q_sources[q]) : q_sources[q][p] \in OwnSources(q)

(***************************************************************************)
(* C17.  When a query starts, the tool manager's source list is empty,     *)
(* whatever the queries before it did, and a query whose run executes no   *)
(* tool returns an empty source list.                                      *)
(***************************************************************************)
C17_EmptyAtQueryStart ==
    \A q \in Queries :
        /\ (q_pc[q] = "running" /\ q_dispatches[q] = 0) => last_sources = <<>>
        /\ (q_pc[q] = "returned" /\ q_dispatches[q] = 0) => q_sources[q] = <<>>

(***************************************************************************)
(* C18.  When the backend reports an error string, execute returns exactly *)
(* that string and the source list is what it was before the call.         *)
(***************************************************************************)
C18_ErrorReturnedVerbatim ==
    [][(search_pc = "searching" /\ search_pc' = "idle" /\ search_found'.error # None) =>
            /\ search_result' = search_found'.error
            /\ last_sources' = last_sources ]_vars

C18_Witness ==
    /\ search_pc = "idle"
    /\ search_found.error = SearchError
    /\ search_result = <<"Search error: ", "backend unavailable">>
    /\ Len(last_sources) = 2

(***************************************************************************)
(* C19.  With zero matches, execute returns "No relevant content found."   *)
(* with no filter, "No relevant content found in course '<course>'." with  *)
(* a course filter, "No relevant content found in lesson <n>." with a      *)
(* lesson filter and "No relevant content found in course '<course>' in    *)
(* lesson <n>." with both, for every course name and every lesson number,  *)
(* lesson 0 included.                                                      *)
(***************************************************************************)
\* The numeral of a lesson number of the catalog.
Numeral(n) == IF n = 0 THEN "0" ELSE "2"

\* execute has returned after a backend answer with no error and no match.
ReturnedNoMatch ==
    /\ search_pc = "idle"
    /\ search_result # None
    /\ search_found.error = None
    /\ search_found.matches = <<>>

C19_NoResultsMessages ==
    ReturnedNoMatch =>
        LET c == search_args.course_name
            n == search_args.lesson_number
        IN /\ (~c.given /\ ~n.given) =>
                search_result = <<"No relevant content found", ".">>
           /\ (c.given /\ ~n.given) =>
                search_result = <<"No relevant content found",
                                  " in course '", c.value, "'", ".">>
           /\ (~c.given /\ n.given) =>
                search_result = <<"No relevant content found",
                                  " in lesson ", Numeral(n.value), ".">>
           /\ (c.given /\ n.given) =>
                search_result = <<"No relevant content found",
                                  " in course '", c.value, "'",
                                  " in lesson ", Numeral(n.value), ".">>

C19_Witness ==
    /\ ReturnedNoMatch
    /\ search_args = [course_name |-> Given("Course B"), lesson_number |-> Given(0)]
    /\ search_result = <<"No relevant content found", " in course '", "Course B", "'",
                         " in lesson ", "0", ".">>

(***************************************************************************)
(* C20.  The label of a match is "<courseTitle>" when its metadata has no  *)
(* lesson number and "<courseTitle> - Lesson <n>" when it has one, lesson  *)
(* 0 included, with "unknown" in place of an absent course title; the      *)
(* bracketed header of the match in the returned text and the source       *)
(* record of the match carry this same label.                              *)
(***************************************************************************)
\* The label the metadata of a match calls for.
ExpectedLabel(meta) ==
    LET title == IF meta.course_title.given THEN meta.course_title.value
                 ELSE "unknown"
    IN IF meta.lesson_number.given
       THEN <<title, " - Lesson ", Numeral(meta.lesson_number.value)>>
       ELSE <<title>>

\* The labels between brackets in a text, in the order of the text.
RECURSIVE BracketedLabels(_)
BracketedLabels(text) ==
    IF text = <<>> THEN <<>>
    ELSE IF Head(text) = "["
    THEN LET close == CHOOSE k \in 1..Len(text) :
                        /\ text[k] = "]"
                        /\ \A j \in 1..(k - 1) : text[j] # "]"
         IN <<SubSeq(text, 2, close - 1)>>
            \o BracketedLabels(SubSeq(text, close + 1, Len(text)))
    ELSE BracketedLabels(Tail(text))

\* execute has returned after a backend answer with at least one match.
ReturnedMatches ==
    /\ search_pc = "idle"
    /\ search_found.error = None
    /\ Len(search_found.matches) > 0

C20_SameLabelInTextAndSource ==
    ReturnedMatches =>
        LET expected == [p \in 1..Len(search_found.matches) |->
                            ExpectedLabel(search_found.matches[p].metadata)]
        IN /\ BracketedLabels(search_result) = expected
           /\ [p \in 1..Len(last_sources) |-> last_sources[p].text] = expected

C20_Witness ==
    /\ ReturnedMatches
    /\ BracketedLabels(search_result) =
           << <<"unknown", " - Lesson ", "0">>, <<"Course A">> >>
    /\ last_sources[1].text = <<"unknown", " - Lesson ", "0">>
    /\ last_sources[2].text = <<"Course A">>

(***************************************************************************)
(* C21.  The system content of every model invocation is SYSTEM_PROMPT     *)
(* followed by the "Previous conversation" section with the history when   *)
(* the history is non-empty, and exactly SYSTEM_PROMPT when the history is *)
(* absent or empty.                                                        *)
(***************************************************************************)
C21_SystemContent ==
    \A i \in 1..Len(create_calls) :
        LET system == create_calls[i].params.system IN
        IF conversation_history.given /\ conversation_history.value # <<>>
        THEN system = <<"SYSTEM_PROMPT", "\n\nPrevious conversation:\n">>
                          \o conversation_history.value
        ELSE system = <<"SYSTEM_PROMPT">>

C21_Witness ==
    /\ Len(create_calls) = 2
    /\ conversation_history.given
    /\ create_calls[2].params.system =
           <<"SYSTEM_PROMPT", "\n\nPrevious conversation:\n",
             "User: previous question", "\n", "Assistant: previous answer">>

(***************************************************************************)
(* C30.  All model invocations of one run carry the same system content    *)
(* and the same base parameters: the configured model, temperature 0 and   *)
(* max_tokens 800.                                                         *)
(***************************************************************************)
C30_SameSystemAndBase ==
    \A i \in 1..Len(create_calls) :
        /\ create_calls[i].params.base =
               [model |-> "model", temperature |-> 0, max_tokens |-> 800]
        /\ \A j \in 1..Len(create_calls) :
               create_calls[j].params.system = create_calls[i].params.system

C30_Witness ==
    /\ Len(create_calls) = 3
    /\ HistoryTruthy(conversation_history)
    /\ ~create_calls[3].params.has_tools
    /\ create_calls[3].params.system = create_calls[1].params.system
    /\ Len(create_calls[3].params.system) > 1

(***************************************************************************)
(* C22.  A tool result that is an error text is an outcome like any other: *)
(* the run does not end with the batch that got it, the round is counted,  *)
(* and the next model invocation receives, in the tool-result turn that    *)
(* ends its transcript, the error text as the content for that call's id.  *)
(***************************************************************************)
\* The k-th execute_tool call came back with the backend's error string.
ReturnedErrorText(k) ==
    execute_calls[k].result = <<"Search error: ", "backend unavailable">>

C22_ErrorTextIsAnOutcome ==
    \A k \in 1..Len(execute_calls) :
        ReturnedErrorText(k) =>
            LET i == execute_calls[k].invocation IN
            /\ Terminated => Len(create_calls) > i
            /\ (pc = "round" /\ Len(create_calls) = i) => round_count = i
            /\ Len(create_calls) > i =>
                  LET msgs == create_calls[i + 1].params.messages
                      turn == msgs[Len(msgs)]
                  IN /\ IsToolResultTurn(turn)
                     /\ \E p \in 1..Len(turn.content) :
                           /\ turn.content[p].tool_use_id = execute_calls[k].id
                           /\ turn.content[p].content = execute_calls[k].result

C22_Witness ==
    /\ Len(create_calls) = 2
    /\ \A k \in BatchOf(1) : ReturnedErrorText(k)
    /\ LET msgs == create_calls[2].params.messages IN
       /\ Len(msgs) = 3
       /\ msgs[3].content[1].content = <<"Search error: ", "backend unavailable">>
       /\ msgs[3].content[1].tool_use_id = 11

(***************************************************************************)
(* C23.  After any sequence of register calls the schemas are one per      *)
(* distinct registered name, the names in the order in which they were     *)
(* first registered, each schema the one of the last registration of its   *)
(* name; and a dispatch by a registered name invokes the handler of the    *)
(* last registration of that name.                                         *)
(***************************************************************************)
\* The register calls made for a name among the first n, and the first and
\* the last of them.
RegistrationsOf(name, n) == {k \in 1..n : register_log[k].name = name}

FirstOf(name, n) ==
    CHOOSE k \in RegistrationsOf(name, n) : \A j \in RegistrationsOf(name, n) : k <= j

LastOf(name, n) ==
    CHOOSE k \in RegistrationsOf(name, n) : \A j \in RegistrationsOf(name, n) : k >= j

C23_LastWriteWins ==
    LET n == Len(register_log)
        schemas == GetToolDefinitions(registry_tools)
        names == {register_log[k].name : k \in 1..n}
    IN /\ Len(schemas) = Cardinality(names)
       /\ {schemas[p].name : p \in 1..Len(schemas)} = names
       /\ \A p \in 1..Len(schemas) :
             /\ schemas[p] = register_log[LastOf(schemas[p].name, n)].schema
             /\ \A r \in 1..(p - 1) :
                   FirstOf(schemas[r].name, n) < FirstOf(schemas[p].name, n)
       /\ RegistrationsOf(dispatched.name, dispatched.registrations) # {} =>
             dispatched.handler =
                 register_log[LastOf(dispatched.name, dispatched.registrations)].handler

C23_Witness ==
    /\ Len(register_log) = 3
    /\ register_log[1].name = "search_course_content"
    /\ register_log[2].name = "get_course_outline"
    /\ register_log[3].name = "search_course_content"
    /\ GetToolDefinitions(registry_tools) =
           << [name |-> "search_course_content", version |-> 3],
              [name |-> "get_course_outline", version |-> 2] >>
    /\ dispatched = [name |-> "search_course_content", handler |-> 3,
                     registrations |-> 3]

(***************************************************************************)
(* C24.  In every dispatch batch the tool calls of the response are        *)
(* dispatched once each, in the order of the response, and nothing else    *)
(* is; a call that fails does not keep the later calls of the batch from   *)
(* being dispatched.                                                       *)
(***************************************************************************)
\* The execute_tool calls made for the i-th response, in the order made.
DispatchedSeq(i) ==
    LET calls == SelectSeq(execute_calls, LAMBDA e : e.invocation = i)
    IN [p \in 1..Len(calls) |-> [id |-> calls[p].id, name |-> calls[p].name]]

\* The tool calls among the first n blocks of the i-th response, in order.
RequestedSeq(i, n) ==
    LET content == create_calls[i].response.content
        calls == SelectSeq(SubSeq(content, 1, n), LAMBDA b : b.type = "tool_use")
    IN [p \in 1..Len(calls) |-> [id |-> calls[p].id, name |-> calls[p].name]]

\* The blocks of the i-th response _execute_tools has gone through: all of
\* them, unless it is at work on that response.
BlocksDone(i) ==
    IF ~RequestsTools(i) THEN 0
    ELSE IF /\ i = Len(create_calls)
            /\ pc = "execute"
            /\ block_idx <= Len(create_calls[i].response.content)
    THEN block_idx - 1
    ELSE Len(create_calls[i].response.content)

C24_EachCallDispatchedOnce ==
    \A i \in 1..Len(create_calls) : DispatchedSeq(i) = RequestedSeq(i, BlocksDone(i))

C24_Witness ==
    /\ pc = "round"
    /\ Len(create_calls) = 1
    /\ Len(execute_calls) = 2
    /\ execute_calls[1].result = None
    /\ execute_calls[2].result # None
    /\ DispatchedSeq(1) = <<[id |-> 11, name |-> "unknown_tool"],
                            [id |-> 12, name |-> "search_course_content"]>>

(***************************************************************************)
(* C25.  The events of a run alternate: a tool call is dispatched only     *)
(* once the model invocation that asked for it has completed, a model      *)
(* invocation is made only once every call of the batch before it has      *)
(* completed, no step is both, and no tool call is dispatched after the    *)
(* forced-synthesis invocation.                                            *)
(***************************************************************************)
\* Every tool call of the i-th response has been dispatched.
BatchComplete(i) ==
    DispatchedSeq(i) = RequestedSeq(i, Len(create_calls[i].response.content))

C25_InvocationsAndBatchesAlternate ==
    [][ /\ execute_calls' # execute_calls =>
            LET i == Len(create_calls)
                call == execute_calls'[Len(execute_calls')]
            IN /\ create_calls' = create_calls
               /\ Len(execute_calls') = Len(execute_calls) + 1
               /\ call.invocation = i
               /\ RequestsTools(i)
               /\ call.id \in RequestedIds(i)
               /\ create_calls[i].params.has_tools
               /\ i <= MAX_TOOL_ROUNDS
        /\ create_calls' # create_calls =>
            /\ execute_calls' = execute_calls
            /\ Len(create_calls') = Len(create_calls) + 1
            /\ Len(create_calls) > 0 =>
                  /\ RequestsTools(Len(create_calls))
                  /\ BatchComplete(Len(create_calls)) ]_vars

C25_Witness ==
    /\ pc = "returned"
    /\ Len(create_calls) = 3
    /\ ~create_calls[3].params.has_tools
    /\ Cardinality(BatchOf(1)) = 2
    /\ Cardinality(BatchOf(2)) = 2
    /\ \A k \in 1..Len(execute_calls) : execute_calls[k].invocation <= 2

(***************************************************************************)
(* C26.  The round counter stays within 0..MAX_TOOL_ROUNDS; a batch with   *)
(* at least one outcome adds one to it and is followed by a model          *)
(* invocation, which is tool-enabled when the counter is then below        *)
(* MAX_TOOL_ROUNDS and the forced synthesis when it equals it; a           *)
(* tool-enabled invocation is made only with the counter below             *)
(* MAX_TOOL_ROUNDS and the forced synthesis only with the counter equal    *)
(* to it.                                                                  *)
(***************************************************************************)
\* _execute_tools has gone through the response and collected an outcome.
BatchOverWithOutcome ==
    /\ pc = "execute"
    /\ block_idx > Len(response.content)
    /\ tool_results # <<>>

C26_RoundTransitions ==
    [][ /\ round_count \in 0..MAX_TOOL_ROUNDS
        /\ round_count' \in 0..MAX_TOOL_ROUNDS
        /\ BatchOverWithOutcome =>
              /\ pc' = "round"
              /\ round_count' = round_count + 1
        /\ (pc = "round" /\ Sequential) =>
              /\ Len(create_calls') = Len(create_calls) + 1
              /\ LET params == create_calls'[Len(create_calls')].params IN
                 /\ params.has_tools <=> round_count < MAX_TOOL_ROUNDS
                 /\ ~params.has_tools <=> round_count = MAX_TOOL_ROUNDS ]_vars

C26_Witness ==
    /\ round_count = MAX_TOOL_ROUNDS
    /\ Len(create_calls) = 3
    /\ create_calls[1].params.has_tools
    /\ create_calls[2].params.has_tools
    /\ ~create_calls[3].params.has_tools

(***************************************************************************)
(* C27.  At every model invocation of a tool-enabled run the transcript    *)
(* has 1 + 2 * round_count turns, the first the user turn with the query,  *)
(* and as many tool-result turns as the counter says; the second           *)
(* invocation gets the query, an assistant turn and a tool-result turn,    *)
(* and the forced synthesis gets five turns.                               *)
(***************************************************************************)
\* The positions after the first whose turn has the role user.
LaterUserTurns(msgs) == {k \in 2..Len(msgs) : msgs[k].role = "user"}

C27_TranscriptLength ==
    [][ (Sequential /\ create_calls' # create_calls) =>
            LET params == create_calls'[Len(create_calls')].params
                msgs == params.messages
            IN /\ Len(msgs) = 1 + 2 * round_count
               /\ msgs[1] = [role |-> "user", content |-> Query]
               /\ Cardinality(LaterUserTurns(msgs)) = round_count
               /\ \A k \in LaterUserTurns(msgs) : IsToolResultTurn(msgs[k])
               /\ Len(create_calls') = 2 =>
                     /\ Len(msgs) = 3
                     /\ msgs[2].role = "assistant"
                     /\ IsToolResultTurn(msgs[3])
               /\ ~params.has_tools => Len(msgs) = 5 ]_vars

C27_Witness ==
    /\ Sequential
    /\ Len(create_calls) = 3
    /\ Len(create_calls[1].params.messages) = 1
    /\ Len(create_calls[2].params.messages) = 3
    /\ Len(create_calls[3].params.messages) = 5
    /\ Cardinality(LaterUserTurns(create_calls[3].params.messages)) = 2

(***************************************************************************)
(* C28.  In every transcript sent to the Model Client the roles alternate, *)
(* user first, and the last turn has the role user: the model is never     *)
(* invoked on a transcript that ends with an assistant turn.               *)
(***************************************************************************)
AlternatingRoles(msgs) ==
    /\ Len(msgs) > 0
    /\ \A k \in 1..Len(msgs) :
          msgs[k].role = IF k % 2 = 1 THEN "user" ELSE "assistant"
    /\ msgs[Len(msgs)].role = "user"

C28_RolesAlternate ==
    \A i \in 1..Len(create_calls) : AlternatingRoles(create_calls[i].params.messages)

C28_Witness ==
    /\ Len(create_calls) = 3
    /\ LET msgs == create_calls[3].params.messages IN
       [k \in 1..Len(msgs) |-> msgs[k].role] =
           <<"user", "assistant", "user", "assistant", "user">>

(***************************************************************************)
(* C29.  Every model invocation made with the round counter below          *)
(* MAX_TOOL_ROUNDS carries the whole list of the supplied tool schemas,    *)
(* unchanged, and tool_choice "auto": the schemas offered in round 2 are   *)
(* those of round 1.                                                       *)
(***************************************************************************)
C29_AllSchemasEveryRound ==
    [][ (Sequential /\ create_calls' # create_calls /\ round_count < MAX_TOOL_ROUNDS) =>
            LET params == create_calls'[Len(create_calls')].params IN
            /\ params.has_tools
            /\ params.tools = tools.schemas
            /\ params.tools = <<"search_course_content", "get_course_outline">>
            /\ params.tool_choice = "auto"
            /\ tools' = tools
            /\ \A i \in 1..Len(create_calls) :
                  create_calls[i].params.tools = params.tools ]_vars

C29_Witness ==
    /\ Len(create_calls) >= 2
    /\ create_calls[1].params.tools = <<"search_course_content", "get_course_outline">>
    /\ create_calls[2].params.tools = <<"search_course_content", "get_course_outline">>
    /\ create_calls[2].params.tool_choice = "auto"

(***************************************************************************)
(* C31.  The multi-round protocol is entered only when a non-empty list of *)
(* schemas and a tool manager are both supplied.  Otherwise, the manager   *)
(* supplied or not, the run makes one model invocation, without schemas,   *)
(* and dispatches nothing.                                                 *)
(***************************************************************************)
\* Both arguments of generate_response that the protocol needs are there.
BothSupplied == tools.given /\ Len(tools.schemas) > 0 /\ tool_manager

\* The run is inside the multi-round protocol, or has left a trace of it.
InProtocol ==
    \/ pc \in {"round", "execute"}
    \/ execute_calls # <<>>
    \/ \E i \in 1..Len(create_calls) : create_calls[i].params.has_tools

C31_ProtocolNeedsToolsAndManager ==
    pc # "start" =>
        /\ InProtocol => BothSupplied
        /\ ~BothSupplied =>
              /\ execute_calls = <<>>
              /\ Len(create_calls) <= 1
              /\ pc = "single" <=> create_calls = <<>>
              /\ Terminated <=> Len(create_calls) = 1
              /\ \A i \in 1..Len(create_calls) :
                    /\ ~create_calls[i].params.has_tools
                    /\ create_calls[i].params.tools = <<>>
        /\ BothSupplied => pc # "single"

\* The manager is supplied and the schema list is empty: one call, no tools.
C31_Witness ==
    /\ pc = "returned"
    /\ tool_manager
    /\ tools.given
    /\ tools.schemas = <<>>
    /\ Len(create_calls) = 1
    /\ ~create_calls[1].params.has_tools
    /\ execute_calls = <<>>

(***************************************************************************)
(* C32.  A tool call is never changed on its way: the assistant turn of    *)
(* every transcript carries the content of the response it answers to,     *)
(* block for block; every dispatch is made with the id, the name and the   *)
(* arguments of a tool_use block of the response of its invocation; and    *)
(* every outcome of a tool-result turn carries the id of the call whose    *)
(* result it holds.                                                        *)
(***************************************************************************)
\* The tool_use blocks of the i-th response.
ToolUseBlocks(i) ==
    {create_calls[i].response.content[p] :
        p \in {q \in 1..Len(create_calls[i].response.content) :
                  create_calls[i].response.content[q].type = "tool_use"}}

\* The j-th transcript holds the responses of the invocations before it.
CarriesResponses(j) ==
    \A i \in 1..(j - 1) :
        create_calls[j].params.messages[2 * i] =
            [role |-> "assistant", content |-> create_calls[i].response.content]

\* The k-th dispatch is the call of a block of its invocation's response.
DispatchedAsRequested(k) ==
    \E b \in ToolUseBlocks(execute_calls[k].invocation) :
        /\ b.id = execute_calls[k].id
        /\ b.name = execute_calls[k].name
        /\ b.input = execute_calls[k].input

\* The outcomes of the i-th batch in the j-th transcript answer its calls.
OutcomesAnswerCalls(j, i) ==
    LET turn == create_calls[j].params.messages[2 * i + 1] IN
    \A p \in 1..Len(turn.content) :
        \E k \in BatchOf(i) :
            /\ execute_calls[k].id = turn.content[p].tool_use_id
            /\ execute_calls[k].result = turn.content[p].content

C32_ToolCallsUnchanged ==
    /\ \A j \in 1..Len(create_calls) :
          /\ Len(create_calls[j].params.messages) >= 2 * j - 1
          /\ CarriesResponses(j)
          /\ \A i \in 1..(j - 1) : OutcomesAnswerCalls(j, i)
    /\ \A k \in 1..Len(execute_calls) : DispatchedAsRequested(k)
    /\ pc \in {"execute", "round"} /\ Len(create_calls) > 0 /\ RequestsTools(Len(create_calls)) =>
          messages[2 * Len(create_calls)] =
              [role |-> "assistant",
               content |-> create_calls[Len(create_calls)].response.content]

\* Two rounds went by, the first with a text block in front of two calls.
C32_Witness ==
    /\ Len(create_calls) = 3
    /\ Len(create_calls[1].response.content) = MaxBlocks
    /\ create_calls[1].response.content[1].type = "text"
    /\ Cardinality(BatchOf(1)) >= 1
    /\ Cardinality(BatchOf(2)) >= 1
    /\ execute_calls[1].input = create_calls[1].response.content[2].input

(***************************************************************************)
(* C33.  After a Content Search that found n >= 1 matches, the text        *)
(* returned is made of n blocks, each a bracketed header and a text, in    *)
(* the backend's order with a blank line between two blocks; the source    *)
(* list has n records in that order, the i-th labelled as the i-th header. *)
(***************************************************************************)
\* The number of pieces of a text equal to `piece`.
CountOf(text, piece) == Cardinality({k \in 1..Len(text) : text[k] = piece})

C33_BlocksAndSourcesInOrder ==
    ReturnedMatches =>
        LET n == Len(search_found.matches)
            headers == BracketedLabels(search_result)
        IN /\ Len(headers) = n
           /\ CountOf(search_result, "[") = n
           /\ CountOf(search_result, "\n\n") = n - 1
           /\ Len(last_sources) = n
           /\ \A i \in 1..n :
                 /\ last_sources[i].text = headers[i]
                 /\ headers[i] = ExpectedLabel(search_found.matches[i].metadata)

\* Two matches of the same course, lesson 0 ranked before lesson 2.
C33_Witness ==
    /\ ReturnedMatches
    /\ Len(search_found.matches) = 2
    /\ search_result = <<"[", "Course A", " - Lesson ", "0", "]", "\n", "Lesson content",
                         "\n\n",
                         "[", "Course A", " - Lesson ", "2", "]", "\n", "Lesson content">>
    /\ Len(last_sources) = 2
    /\ last_sources[1].text = <<"Course A", " - Lesson ", "0">>
    /\ last_sources[2].text = <<"Course A", " - Lesson ", "2">>

(***************************************************************************)
(* C34.  After a Content Search that found matches, the backend was asked  *)
(* for a deep link once for each match whose metadata has a lesson number, *)
(* with the course title and the lesson number of that match, and the      *)
(* source record of the match has the link the backend gave; for a match   *)
(* without a lesson number the backend was not asked and the record has no *)
(* link.                                                                   *)
(***************************************************************************)
\* The positions of the matches with a lesson number, up to position i.
WithLessonUpTo(i) ==
    {p \in 1..i : search_found.matches[p].metadata.lesson_number.given}

C34_LinkResolvedWhenLessonPresent ==
    ReturnedMatches =>
        LET ms == search_found.matches
            lookups == store_calls.get_lesson_link
        IN /\ Len(lookups) = Cardinality(WithLessonUpTo(Len(ms)))
           /\ \A i \in 1..Len(ms) :
                 LET meta == ms[i].metadata
                     title == IF meta.course_title.given
                              THEN meta.course_title.value ELSE "unknown"
                 IN IF meta.lesson_number.given
                    THEN /\ lookups[Cardinality(WithLessonUpTo(i))] =
                               [course_title |-> title,
                                lesson_number |-> meta.lesson_number.value]
                         /\ last_sources[i].link =
                               GetLessonLink(title, meta.lesson_number.value)
                    ELSE last_sources[i].link = None

\* A match without a lesson number ranked before lesson 0 of Course A: one
\* lookup, and only the second record has a link.
C34_Witness ==
    /\ ReturnedMatches
    /\ Len(search_found.matches) = 2
    /\ ~search_found.matches[1].metadata.lesson_number.given
    /\ store_calls.get_lesson_link = <<[course_title |-> "Course A", lesson_number |-> 0]>>
    /\ last_sources[1].link = None
    /\ last_sources[2].link = <<"https://example.com/lesson/", "Course A", "/", "0">>

(***************************************************************************)
(* C35.  Every execution of the Content Search makes one search of the     *)
(* backend, with the query, the course filter and the lesson filter of the *)
(* execution as they were given, an absent filter passed as absent.        *)
(***************************************************************************)
\* execute has been called.
SearchStarted == search_pc = "searching" \/ search_result # None

C35_OneSearchWithGivenFilters ==
    SearchStarted =>
        /\ Len(store_calls.search) = 1
        /\ store_calls.search[1].query = SearchQuery
        /\ store_calls.search[1].course_name = search_args.course_name
        /\ store_calls.search[1].lesson_number = search_args.lesson_number

\* The execution with both filters, the lesson filter being lesson 0, has
\* returned.
C35_Witness ==
    /\ search_pc = "idle"
    /\ search_result # None
    /\ search_args = [course_name |-> Given("Course A"), lesson_number |-> Given(0)]
    /\ store_calls.search =
           <<[query |-> <<"testing concepts">>, course_name |-> Given("Course A"),
              lesson_number |-> Given(0)]>>

(***************************************************************************)
(* C36.  A query made with a session id reads the history of the session   *)
(* once, before its run, and passes it to generate_response; when the run  *)
(* has returned, one exchange is added to the session, with the session    *)
(* id, the text of the query as the user wrote it and the answer.  A query *)
(* whose run raised adds no exchange.                                      *)
(***************************************************************************)
\* The exchanges of the sessions when query q is called: one for each query
\* before it that was made with a session id and has returned.
RECURSIVE ExchangesBefore(_)
ExchangesBefore(q) ==
    IF q = 1 THEN <<>>
    ELSE ExchangesBefore(q - 1) \o
         (IF q_session[q - 1] # "" /\ q_pc[q - 1] = "returned"
          THEN <<[session_id |-> q_session[q - 1],
                  query |-> <<"question ", Digits[q]>>,
                  answer |-> <<"answer ", Digits[q]>>]>>
          ELSE <<>>)

\* The exchanges in the session that hold the text of query q.
ExchangesOfQuery(q) ==
    {k \in 1..Len(session_exchanges) :
        session_exchanges[k].query = <<"question ", Digits[q + 1]>>}

RECURSIVE WrittenOut(_)
WrittenOut(text) ==
    IF text = <<>> THEN <<>>
    ELSE (IF Head(text) = "SYSTEM_PROMPT" THEN SystemPromptText ELSE <<Head(text)>>)
         \o WrittenOut(Tail(text))

\* The phrase is in the text.
Contains(text, phrase) == \E k \in 1..Len(text) : text[k] = phrase

C37_PromptNamesToolsAndGuidelines ==
    \A i \in 1..Len(create_calls) :
        LET system == WrittenOut(create_calls[i].params.system) IN
        /\ Contains(system, "search_course_content")
        /\ Contains(system, "get_course_outline")
        /\ Contains(system, "Course-specific content questions")
        /\ Contains(system, "One tool use per query maximum")

(***************************************************************************)
(* C38.  The legacy _handle_tool_execution makes one model invocation,     *)
(* without tool schemas, whatever the outcomes of the tool calls, also     *)
(* when every one of them failed; the transcript of that invocation is the *)
(* caller's messages, the assistant turn and, only when an outcome was     *)
(* produced, one tool-result turn; the caller's list of messages is left   *)
(* as it was.                                                              *)
(***************************************************************************)
\* The method has been entered: the first turn after the caller's messages
\* is the assistant turn.
LegacyEntered == pc # "start"

\* The outcomes produced by the dispatches of the method.
LegacyOutcomes ==
    SelectSeq(execute_calls, LAMBDA c : c.result # <<>>)

C38_LegacyOneFinalCall ==
    LegacyEntered =>
        /\ base_messages \in CallerMessages
        /\ Len(create_calls) <= 1
        /\ Terminated <=> Len(create_calls) = 1
        /\ \A i \in 1..Len(create_calls) :
              LET params == create_calls[i].params
                  n == Len(base_messages)
              IN /\ ~params.has_tools
                 /\ params.tools = <<>>
                 /\ SubSeq(params.messages, 1, n) = base_messages
                 /\ params.messages[n + 1].role = "assistant"
                 /\ IF LegacyOutcomes = <<>>
                    THEN Len(params.messages) = n + 1
                    ELSE /\ Len(params.messages) = n + 2
                         /\ IsToolResultTurn(params.messages[n + 2])
                         /\ Len(params.messages[n + 2].content) = Len(LegacyOutcomes)

\* Every tool call failed and the model was invoked all the same, on a
\* transcript that ends with the assistant turn.
C38_Witness ==
    /\ pc = "returned"
    /\ Len(execute_calls) = 2
    /\ LegacyOutcomes = <<>>
    /\ Len(create_calls) = 1
    /\ Len(base_messages) = 1
    /\ Len(create_calls[1].params.messages) = 2
    /\ create_calls[1].params.messages[2].role = "assistant"

====
